---- MODULE Spec2Model ----
(***************************************************************************)
(* KC Events - Discord OAuth bridge.                                       *)
(*                                                                         *)
(* The repository holds three builds of the same two routes                *)
(*   GET /oauth/discord/start     and    GET /oauth/discord/callback       *)
(*                                                                         *)
(*   "part_001"  src/unnamed/part_001  ticket looked up in linkStates,     *)
(*               15 minute expiry on /start, Realtime Database mapping     *)
(*   "part_000"  src/unnamed/part_000  ticket looked up in                 *)
(*               discordLinkStates, no expiry, no mapping store            *)
(*   "index_cjs" src/index.cjs         state is a Discord snowflake,       *)
(*               checked by format only, no ticket store                   *)
(*                                                                         *)
(* One deployment runs one build (variable `variant`).  Every `await` of a *)
(* handler is a point where another request may run, so a handler is a     *)
(* sequence of actions, one per awaited call together with the synchronous *)
(* code that follows it: an action is the return of the call the run       *)
(* awaits, and the code up to the next await, where the arguments of the   *)
(* next call (Date.now() among them) are built.  Two handler runs are in   *)
(* progress at a time                                                      *)
(* (Req); a run that has sent its response leaves its slot to the next     *)
(* request, and MaxReq requests arrive in all.  Strings are TLA+ strings;  *)
(* "" stands for a missing (undefined / empty, both falsy in JavaScript)   *)
(* value.  The one string whose characters the code looks at, the `state`  *)
(* parameter of index.cjs, is the sequence of its UTF-16 code units.       *)
(***************************************************************************)
EXTENDS Integers, Sequences, FiniteSets, TLC

VARIABLES
    variant,       \* which build is deployed
    now,           \* Date.now(), in milliseconds
    linkStates,    \* Firestore ticket collection: ticket id -> [createdAt, used]
    users,         \* Firestore users collection: doc id -> user record
    discordLinks,  \* Realtime Database discordLinks/{discordId} -> [uid, linkedAt]
    rtdbUsers,     \* Realtime Database users/{uid}/discordId (or linkedDiscordId)
    req,           \* the handler runs: slot -> locals of the run
    served         \* how many requests have arrived

vars == <<variant, now, linkStates, users, discordLinks, rtdbUsers, req, served>>

----------------------------------------------------------------------------
(* Bounds of the model *)

MaxReq == 2        \* HTTP requests that arrive in one behaviour
MaxUsers == 3      \* document ids the users collection can hold

(* Program constant: the expiry window of the start route *)
maxAgeMs == 15 * 60 * 1000

Req == {1, 2}
UserIds == 1..MaxUsers
NoDoc == 0
NoTime == -1
Null == "<null>"
Absent == "<absent>"

Variants == {"part_001", "part_000", "index_cjs"}
StoreBacked == {"part_001", "part_000"}

(* Two Discord snowflakes (17 and 18 digits): D1 is the account that gives *)
(* its consent at the provider, D2 another account's id                    *)
D1 == "11111111111111111"
D2 == "222222222222222222"

(* The clock values a run visits: tickets are created at 0 and 1, so that  *)
(* at maxAgeMs + 1 one ticket is one millisecond past the window and the   *)
(* other exactly on it.                                                    *)
Times == {1, maxAgeMs + 1}

(* index.cjs trims its `state` query parameter and matches it against a   *)
(* pattern, so there the parameter is the sequence of its UTF-16 code      *)
(* units, each a number.  CodeUnits holds the code units of the digits and *)
(* letters, which the inputs and the identifiers of the model are written  *)
(* with, and Characters is its inverse; Units(s) is the code units of the  *)
(* string s and Text(u) the string with the code units u.                  *)
CodeUnits ==
    LET Row(str, before) ==
            [c \in {SubSeq(str, i, i) : i \in 1..Len(str)} |->
                before + (CHOOSE i \in 1..Len(str) : SubSeq(str, i, i) = c)]
    IN Row("0123456789", 47) @@ Row("ABCDEFGHIJKLMNOPQRSTUVWXYZ", 64)
       @@ Row("abcdefghijklmnopqrstuvwxyz", 96)
Characters ==
    [n \in {CodeUnits[c] : c \in DOMAIN CodeUnits} |->
        CHOOSE c \in DOMAIN CodeUnits : CodeUnits[c] = n]
RECURSIVE Units(_)
Units(s) ==
    IF Len(s) = 0 THEN << >>
    ELSE <<CodeUnits[SubSeq(s, 1, 1)]>> \o Units(SubSeq(s, 2, Len(s)))
RECURSIVE Text(_)
Text(u) ==
    IF Len(u) = 0 THEN "" ELSE Characters[u[1]] \o Text(Tail(u))

(* The code units of the two snowflakes *)
D1Units == Units(D1)
D2Units == Units(D2)

(* A missing `state`: the empty string *)
NoState == IF variant = "index_cjs" THEN << >> ELSE ""

(* The values of the `state` and `code` query parameters that are sent.    *)
(* index.cjs is sent no state, "abc", the two snowflakes, and the second   *)
(* snowflake with an em space (U+2003) in front and a form feed behind.    *)
StateInputs ==
    IF variant = "index_cjs"
    THEN { << >>, Units("abc"), D1Units, D2Units, <<8195>> \o D2Units \o <<12>> }
    ELSE {"", "T1", "T2", "zz"}
CodeInputs == {"", "c1"}

(* The start route of index.cjs is also sent strings around the edges of   *)
(* its format check: 16, 17, 20 and 21 digits, a letter among 17           *)
(* characters, snowflakes wrapped in characters that trim removes (space   *)
(* and line feed; form feed; vertical tab; no-break space and U+FEFF; em   *)
(* space and line separator U+2028; ideographic space U+3000), a space     *)
(* between digits, and snowflakes behind a character that trim leaves in   *)
(* place (next line U+0085, zero width space U+200B).                      *)
FormatInputs ==
    { << >>, Units("abc"), D1Units, D2Units, Units("1234567890123456"),
      Units("12345678901234567890"), Units("123456789012345678901"),
      Units("1234567890123456x"),
      <<32>> \o D1Units \o <<10>>,
      <<12>> \o D1Units,
      D1Units \o <<11>>,
      <<160>> \o D2Units \o <<65279>>,
      <<8195>> \o D1Units \o <<8232>>,
      <<12288>> \o D2Units,
      Units("11111111") \o <<32>> \o Units("11111111"),
      <<133>> \o D1Units,
      <<8203>> \o D1Units }

(* What the provider's identity endpoint can answer for an access token *)
NoProfile == [id |-> "", username |-> "", discriminator |-> "", avatar |-> ""]
Profiles ==
    { [id |-> D1, username |-> "alice", discriminator |-> "0001", avatar |-> "a1"] }

(* The access token the token endpoint hands out tells the account that    *)
(* gave its consent.                                                       *)
AccessTokens == {"tok1"}
AccountOf(tok) == IF tok = "tok1" THEN D1 ELSE ""

NoCredential == [uid |-> NoDoc, discordId |-> Absent]
NoResp == [status |-> 0, to |-> "none", state |-> "", token |-> NoCredential]

(* The locals of a handler run.  Beside the handler's own variables the    *)
(* run logs whether, when it arrived, its ticket was older than the expiry *)
(* window (expired) and a credential had been issued for its state         *)
(* (replay), what the provider answered (tokenRes, userRes), how often it  *)
(* was called, and what update() of the ticket reported (marked).          *)
(* calledAt is the Date.now() that was read into the argument of the write *)
(* the run awaits.                                                          *)
IdleReq ==
    [ route |-> "none", pc |-> "idle", code |-> "", state |-> NoState,
      expired |-> FALSE, replay |-> FALSE,
      accessToken |-> "", me |-> NoProfile, docId |-> NoDoc, found |-> FALSE,
      calledAt |-> NoTime,
      tokenRes |-> "none", userRes |-> "none",
      tokenCalls |-> 0, identityCalls |-> 0, marked |-> "none",
      resp |-> NoResp ]

(* User records that exist before any request: an application account     *)
(* that was never linked, and one that was linked to D1 earlier, under an   *)
(* older Discord name.                                                      *)
AppUser ==
    [ displayName |-> "Bob", username |-> "bob", joined |-> 0,
      discordId |-> Absent, discordUsername |-> Absent,
      discordAvatarURL |-> Absent ]
OldUser ==
    [ displayName |-> "Alice K", username |-> "alicek", joined |-> 0,
      discordId |-> D1, discordUsername |-> "al", discordAvatarURL |-> Null ]

InitialUsers == { (1 :> AppUser), (1 :> AppUser) @@ (2 :> OldUser) }

(* The tickets the bot has written: createdAt, used = false *)
Ticket(t) == [createdAt |-> t, used |-> FALSE]
InitialTickets == ("T1" :> Ticket(0)) @@ ("T2" :> Ticket(1))

Init ==
    /\ variant \in Variants
    /\ now = 1
    /\ linkStates = IF variant \in StoreBacked THEN InitialTickets ELSE <<>>
    /\ users \in InitialUsers
    /\ discordLinks = <<>>
    /\ rtdbUsers = <<>>
    /\ req = [r \in Req |-> IdleReq]
    /\ served = 0

----------------------------------------------------------------------------
(* Responses: the status, where a redirect leads, the `state` parameter of *)
(* a redirect to the provider's authorize URL, and the credential a        *)
(* redirect to the success URL carries                                     *)

Send(status) == [status |-> status, to |-> "none", state |-> "", token |-> NoCredential]
Redirect(dest) == [status |-> 302, to |-> dest, state |-> "", token |-> NoCredential]
Authorize(state) ==
    [status |-> 302, to |-> "provider", state |-> state, token |-> NoCredential]
RedirectWith(cred) == [status |-> 302, to |-> "success", state |-> "", token |-> cred]
Unhandled == [status |-> -1, to |-> "none", state |-> "", token |-> NoCredential]

(* The handler run in slot r ends with response rs.  A run that issued a   *)
(* credential keeps the identity and the document it was issued for; the   *)
(* locals of any other run go out of scope.                                *)
Finish(r, rs) ==
    req' = [req EXCEPT ![r] =
              IF rs.to = "success"
              THEN [req[r] EXCEPT !.pc = "done", !.resp = rs,
                                  !.calledAt = NoTime]
              ELSE [req[r] EXCEPT !.pc = "done", !.resp = rs,
                                  !.accessToken = "", !.me = NoProfile,
                                  !.docId = NoDoc, !.found = FALSE,
                                  !.calledAt = NoTime]]

(* The slot the next request's handler runs in: the first slot never used, *)
(* or else the first one whose run has sent its response                   *)
Idle(r) == req[r].pc = "idle"
Free(r) == req[r].pc \in {"idle", "done"}
NextSlot(r) ==
    IF \E q \in Req : Idle(q)
    THEN Idle(r) /\ \A q \in Req : q < r => ~Idle(q)
    ELSE Free(r) /\ \A q \in Req : q < r => ~Free(q)

(* A request arrives and its handler starts in slot r *)
Fresh(r) ==
    /\ served < MaxReq
    /\ served' = served + 1
    /\ NextSlot(r)

(* Run r has answered with a redirect to the success URL, which carries    *)
(* the credential                                                          *)
Issued(r) ==
    req[r].route = "callback" /\ req[r].pc = "done" /\ req[r].resp.to = "success"

(* The ticket t is in the store and older than the expiry window *)
Expired(t) ==
    t \in DOMAIN linkStates /\ (now - linkStates[t].createdAt) > maxAgeMs

(* The locals of a handler run that starts on `route` with the query       *)
(* parameters `code` and `state`                                           *)
Arrived(route, code, state) ==
    [IdleReq EXCEPT !.route = route, !.code = code, !.state = state,
                    !.expired = Expired(state),
                    !.replay = \E q \in Req : Issued(q) /\ req[q].state = state]

(* Time passes *)
Tick ==
    /\ \E t \in Times : t > now /\ now' = t
    /\ UNCHANGED <<variant, linkStates, users, discordLinks, rtdbUsers, req, served>>

----------------------------------------------------------------------------
(* Helpers shared by the builds *)

(* `https://cdn.discordapp.com/avatars/${discordId}/${avatarHash}.png`, or  *)
(* null when the profile carries no avatar hash                             *)
AvatarUrl(id, hash) ==
    IF hash # ""
    THEN "https://cdn.discordapp.com/avatars/" \o id \o "/" \o hash \o ".png"
    ELSE Null

(* users.where('discordId', '==', id): the ids of the matching documents *)
Matching(id) == {u \in DOMAIN users : users[u].discordId = id}

(* .limit(1).get(), docs[0]: Firestore orders a query without orderBy by   *)
(* document id, so the first match is the one with the least id            *)
FirstDoc(S) == CHOOSE u \in S : \A v \in S : u <= v

(* collection('users').doc(): an auto-generated id no document has yet *)
NewDocIds == UserIds \ DOMAIN users

(* Slot r of a handler that is at label l *)
At(r, l) == req[r].pc = l

(* The catch block of the callback handlers:                               *)
(* res.redirect(process.env.PUBLIC_WEB_ERROR_URL || '/')                    *)
Caught(r) == Finish(r, Redirect("error"))

(* The handler goes on to the await at label `next`; "send400" is the       *)
(* return res.status(400) of index.cjs that follows the user write.  The    *)
(* mapping write is called with { uid, linkedAt: Date.now() }: the clock is *)
(* read when the call is made                                               *)
Continue(r, next) ==
    IF next = "send400" THEN Finish(r, Send(400))
    ELSE req' = [req EXCEPT ![r].pc = next,
                            ![r].calledAt = IF next = "rtdbLink" THEN now ELSE @]

----------------------------------------------------------------------------
(* src/unnamed/part_001: GET /oauth/discord/start *)

(* The handler up to `await db.collection('linkStates').doc(state).get()` *)
P1_Start(r, state) ==
    /\ variant = "part_001"
    /\ Fresh(r)
    /\ IF state = ""
       THEN req' = [req EXCEPT ![r] = [Arrived("start", "", state) EXCEPT
                                          !.pc = "done", !.resp = Send(400)]]
       ELSE req' = [req EXCEPT ![r] = [Arrived("start", "", state) EXCEPT
                                          !.pc = "startRead"]]
    /\ UNCHANGED <<variant, now, linkStates, users, discordLinks, rtdbUsers>>

(* The read of the ticket returns: the exists / used / age tests, with      *)
(* Date.now() read now, and the response                                    *)
P1_StartRead(r, readOk) ==
    /\ variant = "part_001"
    /\ At(r, "startRead")
    /\ LET state == req[r].state
           rs == IF ~readOk THEN Send(500)
                 ELSE IF state \notin DOMAIN linkStates THEN Send(400)
                 ELSE IF linkStates[state].used
                         \/ (now - linkStates[state].createdAt) > maxAgeMs
                      THEN Send(400)
                 ELSE Authorize(state)
       IN Finish(r, rs)
    /\ UNCHANGED <<variant, now, linkStates, users, discordLinks, rtdbUsers, served>>

(* src/unnamed/part_001: GET /oauth/discord/callback, up to the ticket read *)
P1_Callback(r, code, state) ==
    /\ variant = "part_001"
    /\ Fresh(r)
    /\ IF code = "" \/ state = ""
       THEN req' = [req EXCEPT ![r] = [Arrived("callback", code, state) EXCEPT
                                          !.pc = "done", !.resp = Send(400)]]
       ELSE req' = [req EXCEPT ![r] = [Arrived("callback", code, state) EXCEPT
                                          !.pc = "getState"]]
    /\ UNCHANGED <<variant, now, linkStates, users, discordLinks, rtdbUsers>>

(* P1_GetState without the used check: only an unknown ticket is refused *)
P1_GetStateExistsOnly(r, readOk) ==
    /\ variant = "part_001"
    /\ At(r, "getState")
    /\ IF ~readOk THEN Caught(r)
       ELSE IF req[r].state \notin DOMAIN linkStates
            THEN Finish(r, Send(400))
       ELSE req' = [req EXCEPT ![r].pc = "token"]
    /\ UNCHANGED <<variant, now, linkStates, users, discordLinks, rtdbUsers, served>>

(* stateSnap = await stateRef.get(); the exists / used check *)
P1_GetState(r, readOk) ==
    /\ variant = "part_001"
    /\ At(r, "getState")
    /\ IF ~readOk THEN Caught(r)
       ELSE IF req[r].state \notin DOMAIN linkStates
               \/ linkStates[req[r].state].used
            THEN Finish(r, Send(400))
       ELSE req' = [req EXCEPT ![r].pc = "token"]
    /\ UNCHANGED <<variant, now, linkStates, users, discordLinks, rtdbUsers, served>>

(* tokenRes = await postForm(token endpoint) returns.  out: "throw" (the    *)
(* fetch rejects), "fail" (a non-2xx response) or "ok"; the handler goes on *)
(* to await the body, text() of a refusal or json()                         *)
PostToken(r, out) ==
    /\ IF out = "throw"
       THEN req' = [req EXCEPT ![r].tokenCalls = @ + 1, ![r].tokenRes = out,
                               ![r].pc = "done", ![r].resp = Redirect("error")]
       ELSE req' = [req EXCEPT ![r].tokenCalls = @ + 1, ![r].tokenRes = out,
                               ![r].pc = "tokenBody"]
    /\ UNCHANGED <<variant, now, linkStates, users, discordLinks, rtdbUsers, served>>

(* The body of the token response returns: if (!tokenRes.ok) { await        *)
(* tokenRes.text(); redirect to the error URL }; tokenData = await          *)
(* tokenRes.json(); accessToken = tokenData.access_token                    *)
ExchangeCode(r, bodyOk, tok) ==
    /\ IF ~bodyOk THEN Caught(r)
       ELSE IF req[r].tokenRes = "fail" THEN Caught(r)
       ELSE req' = [req EXCEPT ![r].accessToken = tok, ![r].pc = "identity"]
    /\ UNCHANGED <<variant, now, linkStates, users, discordLinks, rtdbUsers, served>>

(* userRes = await fetch(users/@me, Bearer accessToken) returns; the        *)
(* handler goes on to await the body, text() of a refusal or json()         *)
GetMe(r, out) ==
    /\ IF out = "throw"
       THEN req' = [req EXCEPT ![r].identityCalls = @ + 1, ![r].userRes = out,
                               ![r].accessToken = "",
                               ![r].pc = "done", ![r].resp = Redirect("error")]
       ELSE req' = [req EXCEPT ![r].identityCalls = @ + 1, ![r].userRes = out,
                               ![r].pc = "identityBody"]
    /\ UNCHANGED <<variant, now, linkStates, users, discordLinks, rtdbUsers, served>>

(* FetchUser without the test of userRes.ok: the body of a refusal, which  *)
(* carries no profile, is taken for the identity                            *)
FetchUserUnchecked(r, bodyOk, profile) ==
    /\ IF ~bodyOk THEN Caught(r)
       ELSE req' = [req EXCEPT ![r].me = IF req[r].userRes = "ok" THEN profile
                                         ELSE NoProfile,
                               ![r].pc = "lookup"]
    /\ UNCHANGED <<variant, now, linkStates, users, discordLinks, rtdbUsers, served>>

(* The body of the identity response returns: if (!userRes.ok) { await      *)
(* userRes.text(); redirect to the error URL }; me = await userRes.json()   *)
FetchUser(r, bodyOk, profile) ==
    /\ IF ~bodyOk THEN Caught(r)
       ELSE IF req[r].userRes = "fail" THEN Caught(r)
       ELSE req' = [req EXCEPT ![r].me = profile, ![r].pc = "lookup"]
    /\ UNCHANGED <<variant, now, linkStates, users, discordLinks, rtdbUsers, served>>

(* LookupUser with the result of the query ignored: every identity is      *)
(* taken for a new one                                                      *)
LookupUserNoReuse(r, readOk) ==
    /\ IF ~readOk THEN Caught(r)
       ELSE req' = [req EXCEPT ![r].found = FALSE, ![r].calledAt = now,
                               ![r].pc = "writeUser"]
    /\ UNCHANGED <<variant, now, linkStates, users, discordLinks, rtdbUsers, served>>

(* snap = await users.where('discordId','==',discordId).limit(1).get();     *)
(* if (!snap.empty) userDoc = snap.docs[0]; then update() is called on the  *)
(* document found, or newRef.set({..., joined: Date.now(), ...}) on a new   *)
(* one, with the clock read at the call                                     *)
LookupUser(r, readOk) ==
    /\ IF ~readOk THEN Caught(r)
       ELSE IF Matching(req[r].me.id) # {}
       THEN req' = [req EXCEPT ![r].found = TRUE,
                               ![r].docId = FirstDoc(Matching(req[r].me.id)),
                               ![r].pc = "writeUser"]
       ELSE req' = [req EXCEPT ![r].found = FALSE, ![r].calledAt = now,
                               ![r].pc = "writeUser"]
    /\ UNCHANGED <<variant, now, linkStates, users, discordLinks, rtdbUsers, served>>

(* The document newRef.set writes for a Discord account seen the first     *)
(* time; joined is the Date.now() read when set() was called                *)
NewUser(me, joined) ==
    [ displayName |-> me.username, username |-> me.username, joined |-> joined,
      discordId |-> me.id, discordUsername |-> me.username,
      discordAvatarURL |-> AvatarUrl(me.id, me.avatar) ]

(* UpdatedUser written with set() in place of update(): the document is   *)
(* replaced by the fields of a new user                                     *)
UpdatedUserReplaced(old, me) ==
    [ displayName |-> me.username, username |-> me.username, joined |-> now,
      discordId |-> me.id, discordUsername |-> me.username,
      discordAvatarURL |-> AvatarUrl(me.id, me.avatar) ]

(* userDoc.ref.update({discordId, discordUsername, discordAvatarURL}) *)
UpdatedUser(old, me) ==
    [old EXCEPT !.discordId = me.id, !.discordUsername = me.username,
                !.discordAvatarURL = AvatarUrl(me.id, me.avatar)]

(* if (!userDoc) { newRef = users.doc(); await newRef.set({...}) }          *)
(* else { await userDoc.ref.update({...}) }                                 *)
WriteUser(r, newId, writeOk, next) ==
    /\ IF ~req[r].found
       THEN /\ newId \in NewDocIds
            /\ IF writeOk
               THEN /\ users' = (newId :> NewUser(req[r].me, req[r].calledAt)) @@ users
                    /\ req' = [req EXCEPT ![r].docId = newId,
                                            ![r].calledAt = NoTime,
                                            ![r].pc = "getNew"]
               ELSE /\ Caught(r)
                    /\ UNCHANGED users
       ELSE /\ newId = NoDoc
            /\ IF writeOk /\ req[r].docId \in DOMAIN users
               THEN /\ users' = [users EXCEPT
                                   ![req[r].docId] = UpdatedUser(@, req[r].me)]
                    /\ Continue(r, next)
               ELSE /\ Caught(r)
                    /\ UNCHANGED users
    /\ UNCHANGED <<variant, now, linkStates, discordLinks, rtdbUsers, served>>

(* userDoc = await newRef.get() *)
GetNewUser(r, readOk, next) ==
    /\ IF readOk THEN Continue(r, next) ELSE Caught(r)
    /\ UNCHANGED <<variant, now, linkStates, users, discordLinks, rtdbUsers, served>>

(* await admin.auth().createCustomToken(uid, { discordId }); the redirect   *)
(* to PUBLIC_WEB_SUCCESS_URL with customToken set                           *)
IssueToken(r, claim, signOk) ==
    /\ IF signOk
       THEN Finish(r, RedirectWith([uid |-> req[r].docId, discordId |-> claim]))
       ELSE Caught(r)
    /\ UNCHANGED <<variant, now, linkStates, users, discordLinks, rtdbUsers, served>>

Outcomes == {"ok", "fail", "throw"}

P1_Token(r, out) ==
    variant = "part_001" /\ At(r, "token") /\ PostToken(r, out)

P1_TokenBody(r, bodyOk, tok) ==
    variant = "part_001" /\ At(r, "tokenBody") /\ ExchangeCode(r, bodyOk, tok)

P1_Identity(r, out) ==
    variant = "part_001" /\ At(r, "identity") /\ GetMe(r, out)

P1_IdentityBody(r, bodyOk, profile) ==
    /\ variant = "part_001" /\ At(r, "identityBody")
    /\ profile.id = AccountOf(req[r].accessToken)
    /\ FetchUser(r, bodyOk, profile)

P1_Lookup(r, readOk) ==
    variant = "part_001" /\ At(r, "lookup") /\ LookupUser(r, readOk)

P1_WriteUser(r, newId, writeOk) ==
    variant = "part_001" /\ At(r, "writeUser")
    /\ WriteUser(r, newId, writeOk, "markUsed")

P1_GetNew(r, readOk) ==
    variant = "part_001" /\ At(r, "getNew") /\ GetNewUser(r, readOk, "markUsed")

(* P1_MarkUsed written with set() in place of update(): the ticket is     *)
(* replaced by { used: true } and loses its createdAt                      *)
P1_MarkUsedSet(r, writeOk) ==
    /\ variant = "part_001"
    /\ At(r, "markUsed")
    /\ IF writeOk
       THEN /\ linkStates' = (req[r].state :> [createdAt |-> NoTime, used |-> TRUE])
                             @@ linkStates
            /\ req' = [req EXCEPT ![r].marked = "success", ![r].calledAt = now,
                                    ![r].pc = "rtdbLink"]
       ELSE /\ Caught(r)
            /\ UNCHANGED linkStates
    /\ UNCHANGED <<variant, now, users, discordLinks, rtdbUsers, served>>

(* P1_MarkUsed with the update left out: the handler goes on, the ticket   *)
(* keeps used = false                                                       *)
P1_MarkUsedNoWrite(r, writeOk) ==
    /\ variant = "part_001"
    /\ At(r, "markUsed")
    /\ IF writeOk /\ req[r].state \in DOMAIN linkStates
       THEN req' = [req EXCEPT ![r].marked = "success", ![r].calledAt = now,
                               ![r].pc = "rtdbLink"]
       ELSE Caught(r)
    /\ UNCHANGED <<variant, now, linkStates, users, discordLinks, rtdbUsers, served>>

(* await stateRef.update({ used: true }); update() rejects when the         *)
(* document does not exist.  The handler goes on to call                    *)
(* rtdb.ref(...).set({ uid, linkedAt: Date.now() })                         *)
P1_MarkUsed(r, writeOk) ==
    /\ variant = "part_001"
    /\ At(r, "markUsed")
    /\ IF writeOk /\ req[r].state \in DOMAIN linkStates
       THEN /\ linkStates' = [linkStates EXCEPT ![req[r].state].used = TRUE]
            /\ req' = [req EXCEPT ![r].marked = "success", ![r].calledAt = now,
                                    ![r].pc = "rtdbLink"]
       ELSE /\ Caught(r)
            /\ UNCHANGED linkStates
    /\ UNCHANGED <<variant, now, users, discordLinks, rtdbUsers, served>>

(* Inside try { ... } catch (dbErr) { console.error(...) }:                 *)
(* await rtdb.ref(`discordLinks/${discordId}`).set({ uid, linkedAt })       *)
P1_RtdbLink(r, writeOk) ==
    /\ variant = "part_001"
    /\ At(r, "rtdbLink")
    /\ IF writeOk
       THEN /\ discordLinks' = (req[r].me.id :>
                                  [uid |-> req[r].docId, linkedAt |-> req[r].calledAt])
                               @@ discordLinks
            /\ req' = [req EXCEPT ![r].calledAt = NoTime, ![r].pc = "rtdbMirror"]
       ELSE /\ req' = [req EXCEPT ![r].calledAt = NoTime, ![r].pc = "mint"]
            /\ UNCHANGED discordLinks
    /\ UNCHANGED <<variant, now, linkStates, users, rtdbUsers, served>>

(* await rtdb.ref(`users/${uid}/discordId`).set(discordId), same try block *)
P1_RtdbMirror(r, writeOk) ==
    /\ variant = "part_001"
    /\ At(r, "rtdbMirror")
    /\ rtdbUsers' = IF writeOk THEN (req[r].docId :> req[r].me.id) @@ rtdbUsers
                    ELSE rtdbUsers
    /\ req' = [req EXCEPT ![r].pc = "mint"]
    /\ UNCHANGED <<variant, now, linkStates, users, discordLinks, served>>

P1_Mint(r, signOk) ==
    variant = "part_001" /\ At(r, "mint") /\ IssueToken(r, req[r].me.id, signOk)

----------------------------------------------------------------------------
(* src/unnamed/part_000 *)

(* GET /oauth/discord/start, up to `await stateRef.get()` *)
P0_Start(r, state) ==
    /\ variant = "part_000"
    /\ Fresh(r)
    /\ IF state = ""
       THEN req' = [req EXCEPT ![r] = [Arrived("start", "", state) EXCEPT
                                          !.pc = "done", !.resp = Send(400)]]
       ELSE req' = [req EXCEPT ![r] = [Arrived("start", "", state) EXCEPT
                                          !.pc = "startRead"]]
    /\ UNCHANGED <<variant, now, linkStates, users, discordLinks, rtdbUsers>>

(* P0_StartRead consuming the ticket: a start that redirects to the         *)
(* provider marks the ticket used                                           *)
P0_StartReadMarks(r, readOk) ==
    /\ variant = "part_000"
    /\ At(r, "startRead")
    /\ LET state == req[r].state
           ok == readOk /\ state \in DOMAIN linkStates /\ ~linkStates[state].used
           rs == IF ~readOk THEN Unhandled
                 ELSE IF ~ok THEN Redirect("error")
                 ELSE Authorize(state)
       IN /\ Finish(r, rs)
          /\ linkStates' = IF ok THEN [linkStates EXCEPT ![state].used = TRUE]
                           ELSE linkStates
    /\ UNCHANGED <<variant, now, users, discordLinks, rtdbUsers, served>>

(* The read of the ticket returns.  The handler has no try block, so a      *)
(* rejected read is an unhandled rejection and no response is sent          *)
P0_StartRead(r, readOk) ==
    /\ variant = "part_000"
    /\ At(r, "startRead")
    /\ LET state == req[r].state
           rs == IF ~readOk THEN Unhandled
                 ELSE IF state \notin DOMAIN linkStates \/ linkStates[state].used
                      THEN Redirect("error")
                 ELSE Authorize(state)
       IN Finish(r, rs)
    /\ UNCHANGED <<variant, now, linkStates, users, discordLinks, rtdbUsers, served>>

(* GET /oauth/discord/callback, up to the ticket read *)
P0_Callback(r, code, state) ==
    /\ variant = "part_000"
    /\ Fresh(r)
    /\ IF code = "" \/ state = ""
       THEN req' = [req EXCEPT ![r] = [Arrived("callback", code, state) EXCEPT
                                          !.pc = "done", !.resp = Redirect("error")]]
       ELSE req' = [req EXCEPT ![r] = [Arrived("callback", code, state) EXCEPT
                                          !.pc = "getState"]]
    /\ UNCHANGED <<variant, now, linkStates, users, discordLinks, rtdbUsers>>

(* stateDoc = await stateRef.get(), before the try block *)
P0_GetState(r, readOk) ==
    /\ variant = "part_000"
    /\ At(r, "getState")
    /\ IF ~readOk THEN Finish(r, Unhandled)
       ELSE IF req[r].state \notin DOMAIN linkStates
               \/ linkStates[req[r].state].used
            THEN Finish(r, Redirect("error"))
       ELSE req' = [req EXCEPT ![r].pc = "token"]
    /\ UNCHANGED <<variant, now, linkStates, users, discordLinks, rtdbUsers, served>>

(* tokenResponse = await fetch(token endpoint) returns; the handler goes on *)
(* to await tokenResponse.json() without looking at the status              *)
P0_Token(r, out) ==
    /\ variant = "part_000"
    /\ At(r, "token")
    /\ IF out = "throw"
       THEN req' = [req EXCEPT ![r].tokenCalls = @ + 1, ![r].tokenRes = out,
                               ![r].pc = "done", ![r].resp = Redirect("error")]
       ELSE req' = [req EXCEPT ![r].tokenCalls = @ + 1, ![r].tokenRes = out,
                               ![r].pc = "tokenBody"]
    /\ UNCHANGED <<variant, now, linkStates, users, discordLinks, rtdbUsers, served>>

(* tokenData = await tokenResponse.json() returns; access_token =            *)
(* tokenData.access_token.  A refusal's body carries no access_token, and   *)
(* the handler goes on with undefined.                                      *)
P0_TokenBody(r, bodyOk, tok) ==
    /\ variant = "part_000"
    /\ At(r, "tokenBody")
    /\ IF ~bodyOk THEN Caught(r)
       ELSE req' = [req EXCEPT
                      ![r].accessToken = IF req[r].tokenRes = "ok" THEN tok ELSE "",
                      ![r].pc = "identity"]
    /\ UNCHANGED <<variant, now, linkStates, users, discordLinks, rtdbUsers, served>>

(* userResponse = await fetch(users/@me, Bearer access_token) returns; the  *)
(* handler goes on to await userResponse.json().  The provider answers ok   *)
(* only to a token it issued.                                               *)
P0_Identity(r, out) ==
    /\ variant = "part_000"
    /\ At(r, "identity")
    /\ out = "ok" => req[r].accessToken # ""
    /\ IF out = "throw"
       THEN req' = [req EXCEPT ![r].identityCalls = @ + 1, ![r].userRes = out,
                               ![r].accessToken = "",
                               ![r].pc = "done", ![r].resp = Redirect("error")]
       ELSE req' = [req EXCEPT ![r].identityCalls = @ + 1, ![r].userRes = out,
                               ![r].pc = "identityBody"]
    /\ UNCHANGED <<variant, now, linkStates, users, discordLinks, rtdbUsers, served>>

(* userData = await userResponse.json() returns; then the users query is    *)
(* built: where() with an undefined value (the body of a refusal has no id) *)
(* throws, which the catch block turns into the error redirect.             *)
P0_IdentityBody(r, bodyOk, profile) ==
    /\ variant = "part_000"
    /\ At(r, "identityBody")
    /\ req[r].userRes = "ok" => profile.id = AccountOf(req[r].accessToken)
    /\ IF bodyOk /\ req[r].userRes = "ok"
       THEN req' = [req EXCEPT ![r].me = profile, ![r].pc = "lookup"]
       ELSE Caught(r)
    /\ UNCHANGED <<variant, now, linkStates, users, discordLinks, rtdbUsers, served>>

(* existingSnap = await users.where('discordId','==',userData.id)           *)
(* .limit(1).get(); userRef = existingSnap.docs[0].ref, or users.doc()      *)
P0_Lookup(r, readOk) ==
    /\ variant = "part_000"
    /\ At(r, "lookup")
    /\ IF ~readOk THEN Caught(r)
       ELSE IF Matching(req[r].me.id) # {}
       THEN req' = [req EXCEPT ![r].found = TRUE,
                               ![r].docId = FirstDoc(Matching(req[r].me.id)),
                               ![r].pc = "writeUser"]
       ELSE req' = [req EXCEPT ![r].found = FALSE, ![r].pc = "writeUser"]
    /\ UNCHANGED <<variant, now, linkStates, users, discordLinks, rtdbUsers, served>>

(* A document that holds none of the fields yet *)
BlankUser ==
    [ displayName |-> Absent, username |-> Absent, joined |-> NoTime,
      discordId |-> Absent, discordUsername |-> Absent,
      discordAvatarURL |-> Absent ]

(* The fields userRef.set(..., { merge: true }) writes *)
MergedUser(old, me) ==
    [old EXCEPT !.discordId = me.id,
                !.discordUsername = me.username \o "#" \o me.discriminator,
                !.discordAvatarURL = AvatarUrl(me.id, me.avatar)]

(* await userRef.set({discordId, discordUsername, discordAvatarURL},        *)
(* { merge: true }), on the document found or on users.doc(), a document   *)
(* with an auto-generated id                                                *)
P0_WriteUser(r, newId, writeOk) ==
    /\ variant = "part_000"
    /\ At(r, "writeUser")
    /\ IF req[r].found THEN newId = req[r].docId ELSE newId \in NewDocIds
    /\ IF writeOk
       THEN /\ users' =
                 (newId :>
                    MergedUser(IF newId \in DOMAIN users
                               THEN users[newId] ELSE BlankUser,
                               req[r].me))
                 @@ users
            /\ req' = [req EXCEPT ![r].docId = newId, ![r].pc = "markUsed"]
       ELSE /\ Caught(r)
            /\ UNCHANGED users
    /\ UNCHANGED <<variant, now, linkStates, discordLinks, rtdbUsers, served>>

(* await stateRef.update({ used: true }) *)
P0_MarkUsed(r, writeOk) ==
    /\ variant = "part_000"
    /\ At(r, "markUsed")
    /\ IF writeOk /\ req[r].state \in DOMAIN linkStates
       THEN /\ linkStates' = [linkStates EXCEPT ![req[r].state].used = TRUE]
            /\ req' = [req EXCEPT ![r].marked = "success", ![r].pc = "mint"]
       ELSE /\ Caught(r)
            /\ UNCHANGED linkStates
    /\ UNCHANGED <<variant, now, users, discordLinks, rtdbUsers, served>>

(* customToken = await admin.auth().createCustomToken(userRef.id);          *)
(* res.redirect(`${PUBLIC_WEB_SUCCESS_URL}?token=${customToken}`)           *)
P0_Mint(r, signOk) ==
    /\ variant = "part_000"
    /\ At(r, "mint")
    /\ IF signOk
       THEN Finish(r, RedirectWith([uid |-> req[r].docId, discordId |-> Absent]))
       ELSE Caught(r)
    /\ UNCHANGED <<variant, now, linkStates, users, discordLinks, rtdbUsers, served>>

----------------------------------------------------------------------------
(* src/index.cjs *)

(* \d of a pattern without the u flag: the code units of "0" to "9" *)
Digits == 48..57

(* The code units String.prototype.trim removes from the two ends of a    *)
(* string (WhiteSpace and LineTerminator of ECMAScript): U+0009 TAB,       *)
(* U+000A LF, U+000B VT, U+000C FF, U+000D CR, U+0020 SPACE, U+00A0        *)
(* NO-BREAK SPACE, U+1680, U+2000 to U+200A, U+2028, U+2029, U+202F,       *)
(* U+205F, U+3000 and U+FEFF                                               *)
WhiteSpace ==
    {9, 10, 11, 12, 13, 32, 160, 5760} \cup (8192..8202)
    \cup {8232, 8233, 8239, 8287, 12288, 65279}

(* String.prototype.trim *)
RECURSIVE TrimLeft(_)
TrimLeft(s) ==
    IF Len(s) > 0 /\ s[1] \in WhiteSpace THEN TrimLeft(Tail(s)) ELSE s
RECURSIVE TrimRight(_)
TrimRight(s) ==
    IF Len(s) > 0 /\ s[Len(s)] \in WhiteSpace
    THEN TrimRight(SubSeq(s, 1, Len(s) - 1)) ELSE s
Trim(s) == TrimRight(TrimLeft(s))

(* IsSnowflake without the upper bound of the quantifier: /^\d{17,}$/     *)
IsSnowflakeNoMax(s) ==
    /\ Len(s) >= 17
    /\ \A i \in 1..Len(s) : s[i] \in Digits

(* /^\d{17,20}$/.test(s) *)
IsSnowflake(s) ==
    /\ Len(s) >= 17
    /\ Len(s) <= 20
    /\ \A i \in 1..Len(s) : s[i] \in Digits

(* GET /oauth/discord/start: the state is trimmed and checked by format,  *)
(* and the trimmed state is the `state` parameter of the authorize URL     *)
Cjs_Start(r, state) ==
    /\ variant = "index_cjs"
    /\ Fresh(r)
    /\ LET rs == IF ~IsSnowflake(Trim(state)) THEN Send(400)
                 ELSE Authorize(Text(Trim(state)))
       IN req' = [req EXCEPT ![r] = [Arrived("start", "", state) EXCEPT
                                             !.pc = "done", !.resp = rs]]
    /\ UNCHANGED <<variant, now, linkStates, users, discordLinks, rtdbUsers>>

(* Cjs_Callback with a single-use check: a state for which a credential    *)
(* was issued is refused                                                    *)
Cjs_CallbackOnce(r, code, state) ==
    /\ variant = "index_cjs"
    /\ Fresh(r)
    /\ IF code = "" \/ state = << >> \/ \E q \in Req : Issued(q) /\ req[q].state = state
       THEN req' = [req EXCEPT ![r] = [Arrived("callback", code, state) EXCEPT
                                          !.pc = "done", !.resp = Send(400)]]
       ELSE req' = [req EXCEPT ![r] = [Arrived("callback", code, state) EXCEPT
                                          !.pc = "token"]]
    /\ UNCHANGED <<variant, now, linkStates, users, discordLinks, rtdbUsers>>

(* GET /oauth/discord/callback, up to the token exchange: no ticket is read *)
Cjs_Callback(r, code, state) ==
    /\ variant = "index_cjs"
    /\ Fresh(r)
    /\ IF code = "" \/ state = << >>
       THEN req' = [req EXCEPT ![r] = [Arrived("callback", code, state) EXCEPT
                                          !.pc = "done", !.resp = Send(400)]]
       ELSE req' = [req EXCEPT ![r] = [Arrived("callback", code, state) EXCEPT
                                          !.pc = "token"]]
    /\ UNCHANGED <<variant, now, linkStates, users, discordLinks, rtdbUsers>>

Cjs_Token(r, out) ==
    variant = "index_cjs" /\ At(r, "token") /\ PostToken(r, out)

Cjs_TokenBody(r, bodyOk, tok) ==
    variant = "index_cjs" /\ At(r, "tokenBody") /\ ExchangeCode(r, bodyOk, tok)

Cjs_Identity(r, out) ==
    variant = "index_cjs" /\ At(r, "identity") /\ GetMe(r, out)

Cjs_IdentityBody(r, bodyOk, profile) ==
    /\ variant = "index_cjs" /\ At(r, "identityBody")
    /\ profile.id = AccountOf(req[r].accessToken)
    /\ FetchUser(r, bodyOk, profile)

Cjs_Lookup(r, readOk) ==
    variant = "index_cjs" /\ At(r, "lookup") /\ LookupUser(r, readOk)

(* discordId = /^\d{17,20}$/.test(discordIdFromState) ? discordIdFromState  *)
(*             : (discordUser?.id || '')                                    *)
LinkKey(state, apiId) ==
    IF IsSnowflake(Trim(state)) THEN Text(Trim(state)) ELSE apiId

(* if (!/^\d{17,20}$/.test(discordId)) return res.status(400), which runs   *)
(* once the user document is written and read back                          *)
CheckedKey(r, next) ==
    IF IsSnowflake(Units(LinkKey(req[r].state, req[r].me.id)))
    THEN next ELSE "send400"

Cjs_WriteUser(r, newId, writeOk) ==
    variant = "index_cjs" /\ At(r, "writeUser")
    /\ WriteUser(r, newId, writeOk, CheckedKey(r, "rtdbLink"))

Cjs_GetNew(r, readOk) ==
    variant = "index_cjs" /\ At(r, "getNew")
    /\ GetNewUser(r, readOk, CheckedKey(r, "rtdbLink"))

(* await admin.database().ref(`discordLinks/${discordId}`).set({uid,        *)
(* linkedAt}): not in a try block of its own, a failure ends in the         *)
(* handler's catch                                                          *)
Cjs_RtdbLink(r, writeOk) ==
    /\ variant = "index_cjs"
    /\ At(r, "rtdbLink")
    /\ IF writeOk
       THEN /\ discordLinks' = (LinkKey(req[r].state, req[r].me.id) :>
                                  [uid |-> req[r].docId, linkedAt |-> req[r].calledAt])
                               @@ discordLinks
            /\ req' = [req EXCEPT ![r].calledAt = NoTime, ![r].pc = "rtdbMirror"]
       ELSE /\ Caught(r)
            /\ UNCHANGED discordLinks
    /\ UNCHANGED <<variant, now, linkStates, users, rtdbUsers, served>>

(* await admin.database().ref(`users/${uid}/linkedDiscordId`).set(discordId) *)
Cjs_RtdbMirror(r, writeOk) ==
    /\ variant = "index_cjs"
    /\ At(r, "rtdbMirror")
    /\ IF writeOk
       THEN /\ rtdbUsers' = (req[r].docId :> LinkKey(req[r].state, req[r].me.id))
                            @@ rtdbUsers
            /\ req' = [req EXCEPT ![r].pc = "mint"]
       ELSE /\ Caught(r)
            /\ UNCHANGED rtdbUsers
    /\ UNCHANGED <<variant, now, linkStates, users, discordLinks, served>>

Cjs_Mint(r, signOk) ==
    variant = "index_cjs" /\ At(r, "mint")
    /\ IssueToken(r, LinkKey(req[r].state, req[r].me.id), signOk)

----------------------------------------------------------------------------
P1_Next ==
    \E r \in Req :
        \/ \E state \in StateInputs : P1_Start(r, state)
        \/ \E ok \in BOOLEAN : P1_StartRead(r, ok)
        \/ \E code \in CodeInputs, state \in StateInputs : P1_Callback(r, code, state)
        \/ \E ok \in BOOLEAN : P1_GetState(r, ok)
        \/ \E out \in Outcomes : P1_Token(r, out)
        \/ \E ok \in BOOLEAN, tok \in AccessTokens : P1_TokenBody(r, ok, tok)
        \/ \E out \in Outcomes : P1_Identity(r, out)
        \/ \E ok \in BOOLEAN, p \in Profiles : P1_IdentityBody(r, ok, p)
        \/ \E ok \in BOOLEAN : P1_Lookup(r, ok)
        \/ \E id \in UserIds \cup {NoDoc}, ok \in BOOLEAN : P1_WriteUser(r, id, ok)
        \/ \E ok \in BOOLEAN : P1_GetNew(r, ok)
        \/ \E ok \in BOOLEAN : P1_MarkUsed(r, ok)
        \/ \E ok \in BOOLEAN : P1_RtdbLink(r, ok)
        \/ \E ok \in BOOLEAN : P1_RtdbMirror(r, ok)
        \/ \E ok \in BOOLEAN : P1_Mint(r, ok)

P0_Next ==
    \E r \in Req :
        \/ \E state \in StateInputs : P0_Start(r, state)
        \/ \E ok \in BOOLEAN : P0_StartRead(r, ok)
        \/ \E code \in CodeInputs, state \in StateInputs : P0_Callback(r, code, state)
        \/ \E ok \in BOOLEAN : P0_GetState(r, ok)
        \/ \E out \in Outcomes : P0_Token(r, out)
        \/ \E ok \in BOOLEAN, tok \in AccessTokens : P0_TokenBody(r, ok, tok)
        \/ \E out \in Outcomes : P0_Identity(r, out)
        \/ \E ok \in BOOLEAN, p \in Profiles : P0_IdentityBody(r, ok, p)
        \/ \E ok \in BOOLEAN : P0_Lookup(r, ok)
        \/ \E id \in UserIds, ok \in BOOLEAN : P0_WriteUser(r, id, ok)
        \/ \E ok \in BOOLEAN : P0_MarkUsed(r, ok)
        \/ \E ok \in BOOLEAN : P0_Mint(r, ok)

Cjs_Next ==
    \E r \in Req :
        \/ \E state \in FormatInputs : Cjs_Start(r, state)
        \/ \E code \in CodeInputs, state \in StateInputs : Cjs_Callback(r, code, state)
        \/ \E out \in Outcomes : Cjs_Token(r, out)
        \/ \E ok \in BOOLEAN, tok \in AccessTokens : Cjs_TokenBody(r, ok, tok)
        \/ \E out \in Outcomes : Cjs_Identity(r, out)
        \/ \E ok \in BOOLEAN, p \in Profiles : Cjs_IdentityBody(r, ok, p)
        \/ \E ok \in BOOLEAN : Cjs_Lookup(r, ok)
        \/ \E id \in UserIds \cup {NoDoc}, ok \in BOOLEAN : Cjs_WriteUser(r, id, ok)
        \/ \E ok \in BOOLEAN : Cjs_GetNew(r, ok)
        \/ \E ok \in BOOLEAN : Cjs_RtdbLink(r, ok)
        \/ \E ok \in BOOLEAN : Cjs_RtdbMirror(r, ok)
        \/ \E ok \in BOOLEAN : Cjs_Mint(r, ok)

(* Any of the three builds *)
Next == Tick \/ P1_Next \/ P0_Next \/ Cjs_Next
Spec == Init /\ [][Next]_vars

(* The builds that look the ticket up in the store *)
NextStore == Tick \/ P1_Next \/ P0_Next
InitStore == Init /\ variant \in StoreBacked
SpecStore == InitStore /\ [][NextStore]_vars

(* The build that checks the state by format only *)
NextFormat == Tick \/ Cjs_Next
InitFormat == Init /\ variant = "index_cjs"
SpecFormat == InitFormat /\ [][NextFormat]_vars

(* The start route of the format-only build alone, on the inputs around    *)
(* the edges of its format check                                            *)
NextStartFormat == \E r \in Req, state \in FormatInputs : Cjs_Start(r, state)
SpecStartFormat == InitFormat /\ [][NextStartFormat]_vars

(* The callback route alone, in any of the three builds: every request is *)
(* a callback that carries a code and a state, and the clock stands still  *)
(* (no callback handler compares times; joined and linkedAt are written    *)
(* with the one clock value).                                              *)
P1_Steps(r) ==
    \/ \E ok \in BOOLEAN : P1_GetState(r, ok)
    \/ \E out \in Outcomes : P1_Token(r, out)
    \/ \E ok \in BOOLEAN, tok \in AccessTokens : P1_TokenBody(r, ok, tok)
    \/ \E out \in Outcomes : P1_Identity(r, out)
    \/ \E ok \in BOOLEAN, p \in Profiles : P1_IdentityBody(r, ok, p)
    \/ \E ok \in BOOLEAN : P1_Lookup(r, ok)
    \/ \E id \in UserIds \cup {NoDoc}, ok \in BOOLEAN : P1_WriteUser(r, id, ok)
    \/ \E ok \in BOOLEAN : P1_GetNew(r, ok)
    \/ \E ok \in BOOLEAN : P1_MarkUsed(r, ok)
    \/ \E ok \in BOOLEAN : P1_RtdbLink(r, ok)
    \/ \E ok \in BOOLEAN : P1_RtdbMirror(r, ok)
    \/ \E ok \in BOOLEAN : P1_Mint(r, ok)

P0_Steps(r) ==
    \/ \E ok \in BOOLEAN : P0_GetState(r, ok)
    \/ \E out \in Outcomes : P0_Token(r, out)
    \/ \E ok \in BOOLEAN, tok \in AccessTokens : P0_TokenBody(r, ok, tok)
    \/ \E out \in Outcomes : P0_Identity(r, out)
    \/ \E ok \in BOOLEAN, p \in Profiles : P0_IdentityBody(r, ok, p)
    \/ \E ok \in BOOLEAN : P0_Lookup(r, ok)
    \/ \E id \in UserIds, ok \in BOOLEAN : P0_WriteUser(r, id, ok)
    \/ \E ok \in BOOLEAN : P0_MarkUsed(r, ok)
    \/ \E ok \in BOOLEAN : P0_Mint(r, ok)

Cjs_Steps(r) ==
    \/ \E out \in Outcomes : Cjs_Token(r, out)
    \/ \E ok \in BOOLEAN, tok \in AccessTokens : Cjs_TokenBody(r, ok, tok)
    \/ \E out \in Outcomes : Cjs_Identity(r, out)
    \/ \E ok \in BOOLEAN, p \in Profiles : Cjs_IdentityBody(r, ok, p)
    \/ \E ok \in BOOLEAN : Cjs_Lookup(r, ok)
    \/ \E id \in UserIds \cup {NoDoc}, ok \in BOOLEAN : Cjs_WriteUser(r, id, ok)
    \/ \E ok \in BOOLEAN : Cjs_GetNew(r, ok)
    \/ \E ok \in BOOLEAN : Cjs_RtdbLink(r, ok)
    \/ \E ok \in BOOLEAN : Cjs_RtdbMirror(r, ok)
    \/ \E ok \in BOOLEAN : Cjs_Mint(r, ok)

NextCallbacks ==
    \E r \in Req :
        \/ \E state \in StateInputs \ {NoState} :
              \/ P1_Callback(r, "c1", state)
              \/ P0_Callback(r, "c1", state)
              \/ Cjs_Callback(r, "c1", state)
        \/ P1_Steps(r)
        \/ P0_Steps(r)
        \/ Cjs_Steps(r)
SpecCallbacks == Init /\ [][NextCallbacks]_vars

(* The callback route of the format-only build alone *)
NextCallbacksFormat ==
    \E r \in Req :
        \/ \E state \in StateInputs \ {NoState} : Cjs_Callback(r, "c1", state)
        \/ Cjs_Steps(r)
SpecCallbacksFormat == InitFormat /\ [][NextCallbacksFormat]_vars

(* The start route of the three builds, next to callbacks of the two        *)
(* store-backed builds in which every store call and every provider call   *)
(* succeeds: the callbacks that mark tickets used                           *)
P1_Linking(r) ==
    \/ \E state \in StateInputs \ {NoState} : P1_Callback(r, "c1", state)
    \/ P1_GetState(r, TRUE)
    \/ P1_Token(r, "ok")
    \/ \E tok \in AccessTokens : P1_TokenBody(r, TRUE, tok)
    \/ P1_Identity(r, "ok")
    \/ \E p \in Profiles : P1_IdentityBody(r, TRUE, p)
    \/ P1_Lookup(r, TRUE)
    \/ \E id \in UserIds \cup {NoDoc} : P1_WriteUser(r, id, TRUE)
    \/ P1_GetNew(r, TRUE)
    \/ P1_MarkUsed(r, TRUE)
    \/ P1_RtdbLink(r, TRUE)
    \/ P1_RtdbMirror(r, TRUE)
    \/ P1_Mint(r, TRUE)

P0_Linking(r) ==
    \/ \E state \in StateInputs \ {NoState} : P0_Callback(r, "c1", state)
    \/ P0_GetState(r, TRUE)
    \/ P0_Token(r, "ok")
    \/ \E tok \in AccessTokens : P0_TokenBody(r, TRUE, tok)
    \/ P0_Identity(r, "ok")
    \/ \E p \in Profiles : P0_IdentityBody(r, TRUE, p)
    \/ P0_Lookup(r, TRUE)
    \/ \E id \in UserIds : P0_WriteUser(r, id, TRUE)
    \/ P0_MarkUsed(r, TRUE)
    \/ P0_Mint(r, TRUE)

NextStarts ==
    \/ Tick
    \/ \E r \in Req :
          \/ \E state \in StateInputs :
                \/ P1_Start(r, state)
                \/ P0_Start(r, state)
                \/ Cjs_Start(r, state)
          \/ \E ok \in BOOLEAN : P1_StartRead(r, ok) \/ P0_StartRead(r, ok)
          \/ P1_Linking(r)
          \/ P0_Linking(r)
SpecStarts == Init /\ [][NextStarts]_vars

----------------------------------------------------------------------------
(* Properties *)

(* A request arrives in this step and its handler starts in slot r *)
ArrivesAt(r) == served' = served + 1 /\ NextSlot(r)

(* Run r is a callback that carried both query parameters *)
IsCallback(r) ==
    req[r].route = "callback" /\ req[r].code # "" /\ req[r].state # NoState

(* Run r sends the success redirect in this step *)
Issues(r) == ~Issued(r) /\ Issued(r)'

(* C1: under the ticket store, of all the callbacks that carry the same     *)
(* ticket at most one is issued a credential.                               *)
C1_OneCredentialPerTicket ==
    \A a, b \in Req :
        (Issued(a) /\ Issued(b) /\ req[a].state = req[b].state) => a = b

(* C2: update() of a ticket whose used flag is already true does not        *)
(* report success: the flag goes from false to true at most once and a      *)
(* second mark-used is told apart.                                          *)
C2_MarkUsedOnce ==
    [][\A r \in Req :
          ( /\ req[r].pc = "markUsed"
            /\ req'[r].pc # "markUsed"
            /\ req[r].state \in DOMAIN linkStates
            /\ linkStates[req[r].state].used )
          => req'[r].marked # "success"]_vars

(* C3: a callback that arrives after a credential was issued for its        *)
(* ticket is redirected to the error URL straight after the ticket read     *)
(* (when that read returns): it calls nothing, writes nothing and issues    *)
(* nothing.                                                                 *)
C3_ReplayRedirected ==
    \A r \in Req :
        (IsCallback(r) /\ req[r].replay)
        => /\ req[r].pc \in {"getState", "done"}
           /\ (req[r].pc = "done" /\ req[r].resp # Unhandled)
              => req[r].resp = Redirect("error")

(* C4: the start route redirects to the provider only for a ticket that     *)
(* exists, is unused and at most maxAgeMs old when the route answers, and   *)
(* answers 400 for any other (unless the read of the ticket itself failed). *)
C4_StartValidates ==
    [][\A r \in Req :
          (req'[r] # req[r] /\ req'[r].route = "start" /\ req'[r].pc = "done")
          => LET t == req'[r].state
                 rs == req'[r].resp
                 valid == /\ t \in DOMAIN linkStates
                          /\ ~linkStates[t].used
                          /\ ~Expired(t)
             IN /\ rs.to = "provider" => valid
                /\ (~valid /\ rs.status \notin {500, -1}) => rs.status = 400]_vars

(* C5: a callback whose ticket was older than the expiry window when it     *)
(* arrived gets no further than the ticket read: no provider call, no       *)
(* write, the ticket not marked, no credential.                             *)
C5_ExpiredCallbackRejected ==
    \A r \in Req :
        (IsCallback(r) /\ req[r].expired)
        => /\ req[r].pc \in {"getState", "done"}
           /\ req[r].tokenCalls = 0
           /\ req[r].marked = "none"
           /\ ~Issued(r)

(* C6: no two user documents carry the same Discord id. *)
C6_UniqueExternalId ==
    \A u, v \in DOMAIN users :
        (users[u].discordId = users[v].discordId
            /\ users[u].discordId \notin {Absent, Null})
        => u = v

(* C7: a callback whose token exchange was answered with a non-success      *)
(* response never calls the identity endpoint, writes nothing and ends      *)
(* with the error redirect.                                                 *)
C7_NoFetchAfterFailedExchange ==
    \A r \in Req :
        (IsCallback(r) /\ req[r].tokenRes = "fail")
        => /\ req[r].identityCalls = 0
           /\ req[r].marked = "none"
           /\ req[r].pc = "done" => req[r].resp = Redirect("error")

(* C8: a callback whose identity matches no user document adds exactly      *)
(* one document, which carries the fetched id, and when it ends with a      *)
(* credential the mapping store holds an entry keyed by the fetched id.     *)
C8_NewIdentityOneRecordOneMapping ==
    [][\A r \in Req :
          /\ ( /\ req[r].pc = "writeUser" /\ ~req[r].found
               /\ req'[r].pc \notin {"writeUser", "done"} )
             => /\ Cardinality(DOMAIN users') = Cardinality(DOMAIN users) + 1
                /\ \E u \in DOMAIN users' \ DOMAIN users :
                      users'[u].discordId = req[r].me.id
          /\ (Issues(r) /\ ~req[r].found)
             => req[r].me.id \in DOMAIN discordLinks']_vars

(* C9: a callback whose fetched id is carried by a user document is         *)
(* resolved to such a document, writes the mirrored fields to that          *)
(* document and to no other, adds no document, and the credential it        *)
(* issues is bound to that document's id.                                   *)
C9_KnownIdentitySameRecord ==
    [][\A r \in Req :
          /\ ( /\ req[r].pc = "lookup" /\ req'[r].pc = "writeUser"
               /\ Matching(req[r].me.id) # {} )
             => /\ req'[r].found
                /\ req'[r].docId \in Matching(req[r].me.id)
          /\ (req[r].pc = "writeUser" /\ req[r].found /\ req'[r] # req[r])
             => /\ DOMAIN users' = DOMAIN users
                /\ users[req[r].docId].discordId = req[r].me.id
                /\ \A u \in DOMAIN users :
                      u # req[r].docId => users'[u] = users[u]
                /\ users'[req[r].docId].discordId = req[r].me.id
          /\ (Issues(r) /\ req[r].found)
             => /\ req'[r].resp.token.uid = req[r].docId
                /\ req[r].docId \in Matching(req[r].me.id)
                /\ users' = users]_vars

(* A callback found the document of its Discord id, updated it and was      *)
(* issued a credential bound to it                                          *)
C9_Witness ==
    \E r \in Req :
        /\ Issued(r) /\ req[r].found
        /\ req[r].resp.token.uid = req[r].docId
        /\ users[req[r].docId].discordUsername # OldUser.discordUsername
        /\ Cardinality(DOMAIN users) = 2

(* C10: when a callback ends with a credential, the mapping entry of the    *)
(* fetched Discord id exists and names the uid the credential is bound to.  *)
C10_MappingMatchesCredential ==
    [][\A r \in Req :
          Issues(r)
          => /\ req[r].me.id \in DOMAIN discordLinks'
             /\ discordLinks'[req[r].me.id].uid = req'[r].resp.token.uid]_vars

(* The ticket t is in the store with used = false *)
Unused(t) == t \in DOMAIN linkStates /\ ~linkStates[t].used

(* C11: for a ticket that is in the store, unused and inside the expiry     *)
(* window, the start route redirects to the provider and leaves the ticket  *)
(* alone; in a callback for an unused ticket every step whose awaited call  *)
(* succeeds goes on to the next step, and the last step answers with the    *)
(* success redirect, which carries a credential bound to a user document,   *)
(* while the stored ticket has used = true.                                 *)
C11_HappyPathSucceeds ==
    [][\A r \in Req :
          req'[r] # req[r] =>
          LET pc == req[r].pc
              to == req'[r].pc
          IN CASE pc \in {"idle", "done"} ->
                    ( /\ variant \in StoreBacked
                      /\ req'[r].route = "start" /\ req'[r].state # "" )
                    => to = "startRead" /\ linkStates' = linkStates
               [] pc = "startRead" ->
                    LET t == req[r].state
                    IN ( /\ P1_StartRead(r, TRUE) \/ P0_StartRead(r, TRUE)
                         /\ Unused(t) /\ ~Expired(t) )
                       => /\ req'[r].resp = Authorize(t)
                          /\ linkStates' = linkStates
               [] pc = "getState" ->
                    ( /\ P1_GetState(r, TRUE) \/ P0_GetState(r, TRUE)
                      /\ Unused(req[r].state) )
                    => to = "token"
               [] pc = "token" ->
                    (P1_Token(r, "ok") \/ P0_Token(r, "ok")) => to = "tokenBody"
               [] pc = "tokenBody" ->
                    ( /\ req[r].tokenRes = "ok"
                      /\ \E tok \in AccessTokens :
                            P1_TokenBody(r, TRUE, tok) \/ P0_TokenBody(r, TRUE, tok) )
                    => to = "identity"
               [] pc = "identity" ->
                    (P1_Identity(r, "ok") \/ P0_Identity(r, "ok"))
                    => to = "identityBody"
               [] pc = "identityBody" ->
                    ( /\ req[r].userRes = "ok"
                      /\ \E p \in Profiles :
                            \/ P1_IdentityBody(r, TRUE, p)
                            \/ P0_IdentityBody(r, TRUE, p) )
                    => to = "lookup"
               [] pc = "lookup" ->
                    (P1_Lookup(r, TRUE) \/ P0_Lookup(r, TRUE)) => to = "writeUser"
               [] pc = "writeUser" ->
                    (\E id \in UserIds \cup {NoDoc} :
                        P1_WriteUser(r, id, TRUE) \/ P0_WriteUser(r, id, TRUE))
                    => /\ to \in {"getNew", "markUsed"}
                       /\ req'[r].docId \in DOMAIN users'
               [] pc = "getNew" -> P1_GetNew(r, TRUE) => to = "markUsed"
               [] pc = "markUsed" ->
                    (P1_MarkUsed(r, TRUE) \/ P0_MarkUsed(r, TRUE))
                    => to \in {"rtdbLink", "mint"}
               [] pc = "rtdbLink" -> P1_RtdbLink(r, TRUE) => to = "rtdbMirror"
               [] pc = "rtdbMirror" -> P1_RtdbMirror(r, TRUE) => to = "mint"
               [] pc = "mint" ->
                    (P1_Mint(r, TRUE) \/ P0_Mint(r, TRUE))
                    => /\ req'[r].resp.to = "success"
                       /\ req'[r].resp.status = 302
                       /\ req'[r].resp.token.uid \in DOMAIN users'
                       /\ req[r].state \in DOMAIN linkStates'
                       /\ linkStates'[req[r].state].used]_vars

(* A start request for a ticket was redirected to the provider, and a       *)
(* callback for the same ticket ended with a credential and the ticket used *)
C11_Witness ==
    \E a, b \in Req :
        /\ variant \in StoreBacked
        /\ req[a].route = "start" /\ req[a].resp = Authorize(req[a].state)
        /\ Issued(b) /\ req[b].state = req[a].state
        /\ req[b].resp.token.uid \in DOMAIN users
        /\ linkStates[req[b].state].used

(* C12 as the spec states it: under the format-only policy the start route  *)
(* redirects to the provider when the state, as sent, is a string of 17 to   *)
(* 20 decimal digits, and answers 400 for every other state.                 *)
C12_StartChecksFormat ==
    [][\A r \in Req :
          (ArrivesAt(r) /\ req'[r].route = "start")
          => LET s == req'[r].state
                 decimal == /\ Len(s) \in 17..20
                            /\ \A i \in 1..Len(s) : s[i] \in 48..57
             IN IF decimal
                THEN req'[r].resp.status = 302 /\ req'[r].resp.to = "provider"
                ELSE req'[r].resp = Send(400)]_vars

(* C12, amended: the start route redirects to the provider, with the        *)
(* trimmed state as the state parameter of the authorize URL, when the       *)
(* state with the white space at its two ends removed is a string of 17 to   *)
(* 20 decimal digits, and answers 400 for every other state.  White space    *)
(* is what JavaScript's trim removes: the code units 9 to 13, 32, 160,       *)
(* 5760, 8192 to 8202, 8232, 8233, 8239, 8287, 12288 and 65279.              *)
C12_StartChecksTrimmedFormat ==
    [][\A r \in Req :
          (ArrivesAt(r) /\ req'[r].route = "start")
          => LET s == req'[r].state
                 blank == (9..13) \cup {32, 160, 5760} \cup (8192..8202)
                          \cup {8232, 8233, 8239, 8287, 12288, 65279}
                 ink == {i \in 1..Len(s) : s[i] \notin blank}
                 first == CHOOSE i \in ink : \A j \in ink : i <= j
                 last == CHOOSE i \in ink : \A j \in ink : i >= j
                 core == IF ink = {} THEN << >> ELSE SubSeq(s, first, last)
                 decimal == /\ Len(core) \in 17..20
                            /\ \A i \in 1..Len(core) : core[i] \in 48..57
             IN IF decimal
                THEN /\ req'[r].resp.status = 302
                     /\ req'[r].resp.to = "provider"
                     /\ Units(req'[r].resp.state) = core
                ELSE req'[r].resp = Send(400)]_vars

(* A snowflake with an em space (U+2003) in front of it and a line          *)
(* separator (U+2028) behind it was redirected to the provider with the     *)
(* bare snowflake as state, and a string of 21 digits was answered with 400 *)
C12_Witness ==
    \E a, b \in Req :
        /\ req[a].route = "start"
        /\ req[a].state = <<8195>> \o D1Units \o <<8232>>
        /\ req[a].resp = Authorize(D1)
        /\ req[b].route = "start"
        /\ req[b].state = Units("123456789012345678901")
        /\ req[b].resp = Send(400)

(* C13: a callback that carried both code and state and did not end with a  *)
(* credential ended with a redirect to the error destination: it sent no    *)
(* other status and it did not end in an exception nobody catches.          *)
C13_FailureRedirects ==
    \A r \in Req :
        (IsCallback(r) /\ req[r].pc = "done" /\ ~Issued(r))
        => req[r].resp = Redirect("error")

(* Run r ends in this step on the error path, and no store changes *)
FailsHere(r) ==
    /\ req'[r].pc = "done"
    /\ req'[r].resp = Redirect("error")
    /\ UNCHANGED <<linkStates, users, discordLinks, rtdbUsers>>

(* C14: in each build a step in which a write of the reconciliation        *)
(* (the user document, the mapping entry, the ticket's used flag) does not  *)
(* complete ends the callback on the error path, so that no credential is   *)
(* issued.                                                                  *)
C14_FailedWriteFails ==
    [][\A r \in Req :
          req'[r] # req[r] =>
          CASE req[r].pc = "writeUser" ->
                 (\E id \in UserIds \cup {NoDoc} :
                     \/ P1_WriteUser(r, id, FALSE)
                     \/ P0_WriteUser(r, id, FALSE)
                     \/ Cjs_WriteUser(r, id, FALSE))
                 => FailsHere(r)
            [] req[r].pc = "markUsed" ->
                 (P1_MarkUsed(r, FALSE) \/ P0_MarkUsed(r, FALSE)) => FailsHere(r)
            [] req[r].pc = "rtdbLink" ->
                 (P1_RtdbLink(r, FALSE) \/ Cjs_RtdbLink(r, FALSE)) => FailsHere(r)
            [] OTHER -> TRUE]_vars

(* C15: in a callback the identity endpoint is called only after the token  *)
(* exchange succeeded; the handler is at a reconciliation step (the users   *)
(* query and write, the ticket's mark-used, the mapping writes) or past it  *)
(* only after the identity fetch succeeded; and a credential is issued only *)
(* after the user document, the ticket's used flag (where there are          *)
(* tickets) and the mapping entry (where there is a mapping store) were      *)
(* written.                                                                  *)
C15_StepsInOrder ==
    \A r \in Req :
        IsCallback(r)
        => /\ req[r].identityCalls > 0
              => req[r].tokenCalls = 1 /\ req[r].tokenRes = "ok"
           /\ ( \/ req[r].pc \in {"lookup", "writeUser", "getNew", "markUsed",
                                   "rtdbLink", "rtdbMirror", "mint"}
                \/ req[r].marked # "none"
                \/ Issued(r) )
              => /\ req[r].tokenRes = "ok"
                 /\ req[r].identityCalls = 1 /\ req[r].userRes = "ok"
           /\ Issued(r)
              => /\ req[r].docId \in DOMAIN users
                 /\ users[req[r].docId].discordId = req[r].me.id
                 /\ variant \in StoreBacked
                    => req[r].marked = "success" /\ linkStates[req[r].state].used
                 /\ variant = "part_001" => req[r].me.id \in DOMAIN discordLinks
                 /\ variant = "index_cjs"
                    => LinkKey(req[r].state, req[r].me.id) \in DOMAIN discordLinks

(* C16: a ticket has used = true only if a callback for it was issued a     *)
(* credential, or is past marking the ticket and still on its way to one;   *)
(* a ticket whose callbacks all ended on the error path has used = false.   *)
C16_UsedOnlyAfterSuccess ==
    \A t \in DOMAIN linkStates :
        linkStates[t].used
        => \E r \in Req :
              /\ IsCallback(r) /\ req[r].state = t
              /\ Issued(r) \/ req[r].pc \in {"rtdbLink", "rtdbMirror", "mint"}

(* C17: when the identity endpoint answers a callback with a non-success   *)
(* response, the step in which the answer arrives changes no store and      *)
(* sends nothing, and the step that follows it, the read of the answer's    *)
(* body, changes no store and ends the callback with the redirect to the    *)
(* error destination: no user document is written, no mapping entry, the    *)
(* ticket is not marked and no credential is issued.                        *)
C17_FailedIdentityFetchChangesNothing ==
    [][\A r \in Req :
          /\ (req[r].pc = "identity" /\ req'[r].userRes = "fail")
             => /\ req'[r].pc = "identityBody"
                /\ req'[r].resp = NoResp
                /\ req'[r].marked = "none"
                /\ UNCHANGED <<linkStates, users, discordLinks, rtdbUsers>>
          /\ ( /\ req[r].pc = "identityBody" /\ req[r].userRes = "fail"
               /\ req'[r] # req[r] )
             => /\ FailsHere(r)
                /\ req'[r].marked = "none"
                /\ req'[r].resp.token = NoCredential]_vars

(* A callback whose token exchange succeeded was refused by the identity    *)
(* endpoint and ended with the error redirect, its ticket still unused      *)
C17_Witness ==
    \E r \in Req :
        /\ IsCallback(r) /\ req[r].tokenRes = "ok" /\ req[r].userRes = "fail"
        /\ req[r].pc = "done" /\ req[r].resp = Redirect("error")
        /\ req[r].state \in DOMAIN linkStates => ~linkStates[req[r].state].used

(* C18: the write of a callback that found the document of its Discord id   *)
(* sets the document's discordId, discordUsername and discordAvatarURL to   *)
(* the values fetched in that callback, and leaves the document's other     *)
(* fields, every other document and the set of documents as they were.      *)
C18_LinkWritesMirroredFieldsOnly ==
    [][\A r \in Req :
          ( /\ req[r].pc = "writeUser" /\ req[r].found
            /\ req'[r].pc \notin {"writeUser", "done"} )
          => LET d == req[r].docId
                 me == req[r].me
                 name == IF variant = "part_000"
                         THEN me.username \o "#" \o me.discriminator
                         ELSE me.username
             IN /\ DOMAIN users' = DOMAIN users
                /\ \A u \in DOMAIN users : u # d => users'[u] = users[u]
                /\ users'[d].discordId = me.id
                /\ users'[d].discordUsername = name
                /\ users'[d].discordAvatarURL =
                      IF me.avatar = "" THEN Null
                      ELSE "https://cdn.discordapp.com/avatars/" \o me.id \o "/"
                              \o me.avatar \o ".png"
                /\ users'[d].displayName = users[d].displayName
                /\ users'[d].username = users[d].username
                /\ users'[d].joined = users[d].joined]_vars

(* A callback was issued a credential for the account linked earlier: the   *)
(* document carries the Discord name and avatar fetched now and the         *)
(* application fields it had, and the other account is as it was            *)
C18_Witness ==
    \E r \in Req :
        /\ Issued(r) /\ req[r].found
        /\ users[req[r].docId].displayName = OldUser.displayName
        /\ users[req[r].docId].username = OldUser.username
        /\ users[req[r].docId].discordUsername \in {"alice", "alice#0001"}
        /\ users[req[r].docId].discordAvatarURL # OldUser.discordAvatarURL
        /\ users[1] = AppUser

(* C19: no step removes a ticket from the store, changes its createdAt or   *)
(* takes its used flag from true back to false.                             *)
C19_TicketsMonotonic ==
    [][\A t \in DOMAIN linkStates :
          /\ t \in DOMAIN linkStates'
          /\ linkStates'[t].createdAt = linkStates[t].createdAt
          /\ linkStates[t].used => linkStates'[t].used]_vars

(* Both tickets were marked used by callbacks, one of them twice, after the *)
(* clock had moved on, and both are in the store with their createdAt       *)
C19_Witness ==
    /\ now > 1
    /\ DOMAIN linkStates = {"T1", "T2"}
    /\ linkStates["T1"] = [createdAt |-> 0, used |-> TRUE]
    /\ linkStates["T2"].createdAt = 1
    /\ \E a, b \in Req :
          a # b /\ req[a].marked = "success" /\ req[b].marked = "success"
          /\ req[a].state = "T1" /\ req[b].state = "T1"

(* The position of a handler run in the order of its awaits.  Started is    *)
(* 1-3, TokenExchanged 4-5, IdentityFetched 6-11, Reconciled 12, and 13 is  *)
(* the terminal state: CredentialIssued or Failed.                          *)
PcRank(pc) ==
    CASE pc = "idle" -> 0
      [] pc \in {"getState", "startRead"} -> 1
      [] pc = "token" -> 2
      [] pc = "tokenBody" -> 3
      [] pc = "identity" -> 4
      [] pc = "identityBody" -> 5
      [] pc = "lookup" -> 6
      [] pc = "writeUser" -> 7
      [] pc = "getNew" -> 8
      [] pc = "markUsed" -> 9
      [] pc = "rtdbLink" -> 10
      [] pc = "rtdbMirror" -> 11
      [] pc = "mint" -> 12
      [] pc = "done" -> 13

(* C20: in each of the three builds every step of a callback moves it      *)
(* forward in the order of its awaits; the token endpoint and the identity  *)
(* endpoint are called at most once each; the response is sent in the step  *)
(* that ends the run, is an HTTP response, and a run that has ended does    *)
(* nothing more; and a run that has started and not ended can always take   *)
(* its next step, whatever the call it awaits returns, so that it ends      *)
(* after at most twelve steps.                                              *)
C20_CallbackTerminatesOnce ==
    /\ [][\A r \in Req :
             req'[r] # req[r] =>
             IF ArrivesAt(r)
             THEN /\ req[r].pc \in {"idle", "done"}
                  /\ req'[r].resp = NoResp
             ELSE /\ req[r].pc \notin {"idle", "done"}
                  /\ PcRank(req'[r].pc) > PcRank(req[r].pc)
                  /\ req[r].resp = NoResp
                  /\ req'[r].tokenCalls <= 1
                  /\ req'[r].identityCalls <= 1
                  /\ req'[r].tokenCalls >= req[r].tokenCalls
                  /\ req'[r].identityCalls >= req[r].identityCalls
                  /\ IF req'[r].pc = "done"
                     THEN req'[r].resp.status \in {302, 400}
                     ELSE req'[r].resp = NoResp]_vars
    /\ [](\A r \in Req :
             req[r].pc \notin {"idle", "done"}
             => ENABLED (P1_Steps(r) \/ P0_Steps(r) \/ Cjs_Steps(r)))

(* C21: in the format-only build no callback reads or writes a ticket, and  *)
(* a callback that carries a code and a state goes on to the token exchange *)
(* and, when each of its calls succeeds, on to the success redirect with a  *)
(* credential, whether or not a credential was issued for its state before: *)
(* two callbacks with the same state can both be issued one.                *)
C21_NoSingleUseUnderFormatPolicy ==
    [][\A r \in Req :
          req'[r] # req[r] =>
          /\ linkStates = << >> /\ linkStates' = << >>
          /\ CASE req[r].pc \in {"idle", "done"} ->
                    (req'[r].code # "" /\ req'[r].state # << >>)
                    => req'[r].pc = "token"
               [] req[r].pc = "token" ->
                    Cjs_Token(r, "ok") => req'[r].pc = "tokenBody"
               [] req[r].pc = "tokenBody" ->
                    ( /\ req[r].tokenRes = "ok"
                      /\ \E tok \in AccessTokens : Cjs_TokenBody(r, TRUE, tok) )
                    => req'[r].pc = "identity"
               [] req[r].pc = "identity" ->
                    Cjs_Identity(r, "ok") => req'[r].pc = "identityBody"
               [] req[r].pc = "identityBody" ->
                    ( /\ req[r].userRes = "ok"
                      /\ \E p \in Profiles : Cjs_IdentityBody(r, TRUE, p) )
                    => req'[r].pc = "lookup"
               [] req[r].pc = "lookup" ->
                    Cjs_Lookup(r, TRUE) => req'[r].pc = "writeUser"
               [] req[r].pc = "writeUser" ->
                    (\E id \in UserIds \cup {NoDoc} : Cjs_WriteUser(r, id, TRUE))
                    => req'[r].pc \in {"getNew", "rtdbLink"}
               [] req[r].pc = "getNew" ->
                    Cjs_GetNew(r, TRUE) => req'[r].pc = "rtdbLink"
               [] req[r].pc = "rtdbLink" ->
                    Cjs_RtdbLink(r, TRUE) => req'[r].pc = "rtdbMirror"
               [] req[r].pc = "rtdbMirror" ->
                    Cjs_RtdbMirror(r, TRUE) => req'[r].pc = "mint"
               [] req[r].pc = "mint" ->
                    Cjs_Mint(r, TRUE)
                    => /\ req'[r].resp.to = "success"
                       /\ req'[r].resp.token.uid \in DOMAIN users']_vars

(* Two callbacks with the same state were both issued a credential, the     *)
(* second having arrived after the first was issued its own                 *)
C21_Witness ==
    \E a, b \in Req :
        /\ a # b /\ variant = "index_cjs"
        /\ Issued(a) /\ Issued(b)
        /\ req[a].state = D1Units /\ req[b].state = D1Units
        /\ req[b].replay
        /\ req[a].resp.token.uid = req[b].resp.token.uid

(* C22: a callback that writes a mapping entry writes it under the external *)
(* id the provider returned for its access token, for the record that       *)
(* carries that id, and a credential that carries a discordId claim carries *)
(* the fetched id for such a record; a state of the callback URL that       *)
(* differs from the fetched id is neither a mapping key nor a claim.        *)
C22_KeyAndClaimAreFetchedId ==
    [][\A r \in Req :
          req'[r] # req[r] =>
          /\ (req[r].pc = "rtdbLink" /\ req'[r].pc = "rtdbMirror")
             => LET D == req[r].me.id
                    U == req[r].docId
                IN /\ DOMAIN discordLinks' \subseteq DOMAIN discordLinks \cup {D}
                   /\ D \in DOMAIN discordLinks'
                   /\ discordLinks'[D].uid = U
                   /\ U \in DOMAIN users /\ users[U].discordId = D
          /\ (Issues(r) /\ req'[r].resp.token.discordId # Absent)
             => LET c == req'[r].resp.token
                IN /\ c.discordId = req[r].me.id
                   /\ c.uid \in DOMAIN users
                   /\ users[c.uid].discordId = c.discordId]_vars

(* C23: in the store-backed builds a callback reaches the ticket read       *)
(* without having called the provider, and when the ticket is unknown or    *)
(* has used = TRUE at that read the callback ends there without a           *)
(* credential: no token exchange, no identity fetch, and the users store,   *)
(* the mapping store and the tickets are left as they were.                 *)
C23_RefusedTicketTouchesNothing ==
    [][\A r \in Req :
          (req'[r] # req[r] /\ req[r].pc = "getState" /\ variant \in StoreBacked)
          => /\ req[r].tokenCalls = 0 /\ req[r].identityCalls = 0
             /\ ~Unused(req[r].state)
                => /\ req'[r].pc = "done"
                   /\ req'[r].resp.to # "success"
                   /\ req'[r].resp.token = NoCredential
                   /\ req'[r].tokenCalls = 0 /\ req'[r].identityCalls = 0
                   /\ req'[r].accessToken = "" /\ req'[r].me = NoProfile
                   /\ req'[r].marked = "none"
                   /\ UNCHANGED <<linkStates, users, discordLinks, rtdbUsers>>]_vars

(* A callback was refused, before any provider call, for a ticket that an   *)
(* earlier callback had marked used                                         *)
C23_Witness ==
    \E a \in Req, t \in DOMAIN linkStates :
        /\ variant \in StoreBacked
        /\ req[a].route = "callback" /\ req[a].pc = "done"
        /\ req[a].state = t /\ linkStates[t].used
        /\ req[a].resp \in {Send(400), Redirect("error")}
        /\ req[a].replay
        /\ req[a].tokenCalls = 0 /\ req[a].identityCalls = 0

(* C24: in each of the three builds every step of a start request, its     *)
(* arrival and the return of its ticket read, whatever it answers, leaves   *)
(* every ticket, every user record, every mapping entry and every mirror    *)
(* entry as it was; and a start request whose ticket is unused and not      *)
(* expired when its read returns without a store failure is redirected to   *)
(* the provider, however many start requests came before it.                *)
C24_StartIsReadOnly ==
    [][\A r \in Req :
          (req'[r] # req[r] /\ req'[r].route = "start")
          => /\ UNCHANGED <<linkStates, users, discordLinks, rtdbUsers>>
             /\ req[r].pc = "startRead"
                => /\ req'[r].pc = "done"
                   /\ ( /\ P1_StartRead(r, TRUE) \/ P0_StartRead(r, TRUE)
                        /\ Unused(req[r].state) /\ ~Expired(req[r].state) )
                      => req'[r].resp = Authorize(req[r].state)
             /\ (variant = "index_cjs" /\ IsSnowflake(Trim(req'[r].state)))
                => req'[r].resp = Authorize(Text(Trim(req'[r].state)))]_vars

(* Two start requests for the same ticket were both redirected to the       *)
(* provider and the ticket is still unused                                  *)
C24_Witness ==
    \E a, b \in Req :
        /\ a # b /\ variant \in StoreBacked
        /\ req[a].route = "start" /\ req[b].route = "start"
        /\ req[a].state = "T1" /\ req[b].state = "T1"
        /\ req[a].resp = Authorize("T1")
        /\ req[b].resp = Authorize("T1")
        /\ Unused("T1")

====
